---- MODULE Spec2Model ----
(***************************************************************************)
(* Creational pattern examples: the Prototype example (object cloning     *)
(* with a nested back reference) and the Abstract Factory example.        *)
(*                                                                         *)
(* The Prototype example is modelled on an explicit object heap with the  *)
(* ECMAScript semantics its code relies on: own properties, the prototype *)
(* chain followed by a property read, assignment creating an own property *)
(* on the receiver, Object.create and object spread.                      *)
(***************************************************************************)
EXTENDS Integers, Sequences, FiniteSets, TLC

VARIABLES heap, pre, calls, last, writes, out, products, console

vars == <<heap, pre, calls, last, writes, out, products, console>>

(***************************************************************************)
(* Bounds of the model.                                                    *)
(***************************************************************************)
MaxClones == 2

MaxWrites == 2

MaxFactoryCalls == 4

(***************************************************************************)
(* Values and objects.                                                     *)
(***************************************************************************)
RefPrimitive == 245

PrimVals == {RefPrimitive, 7}

DataVals == {1, 2}

Props == {"primitive", "component", "circularReference", "prototype", "data"}

Absent == [t |-> "absent", v |-> 0]

Undef == [t |-> "undef", v |-> 0]

Prim(n) == [t |-> "prim", v |-> n]

Ref(i) == [t |-> "ref", v |-> i]

NoOwn == [p \in Props |-> Absent]

(* The id 0 stands for the end of the prototype chain. *)
RECURSIVE Get(_, _, _)
Get(h, o, p) ==
    IF o = 0 THEN Undef
    ELSE IF h[o].own[p] # Absent THEN h[o].own[p]
    ELSE Get(h, h[o].proto, p)

HasOwn(h, o, p) == h[o].own[p] # Absent

OwnProps(h, o) == {p \in Props : HasOwn(h, o, p)}

(* o.p = v on data properties: an own property of the receiver. *)
Put(h, o, p, v) == [h EXCEPT ![o].own[p] = v]

(* Variant: the new object is not linked to proto. *)
ObjectCreate_Unlinked(h, proto) ==
    [cls |-> h[proto].cls, proto |-> 0, own |-> NoOwn]

(* Object.create(proto): no own properties, prototype proto. *)
ObjectCreate(h, proto) ==
    [cls |-> h[proto].cls, proto |-> proto, own |-> NoOwn]

(* Object.create throws a TypeError unless given an object (or null). *)
ObjectCreateThrows(v) == v.t # "ref"

(* { ...v }: the own enumerable properties of v, on a plain object. *)
Spread(h, v) ==
    [cls |-> "Object", proto |-> 0,
     own |-> IF v.t = "ref" THEN h[v.v].own ELSE NoOwn]

(* new Prototype(): the declared fields are not initialised. *)
NewPrototypeObj == [cls |-> "Prototype", proto |-> 0, own |-> NoOwn]

(* new Date(): an opaque component; its content is one data property. *)
NewComponentObj(d) ==
    [cls |-> "Component", proto |-> 0, own |-> [NoOwn EXCEPT !["data"] = Prim(d)]]

(* new ComponentWithBackReference(prototype) *)
ComponentWithBackReference(prototype) ==
    [cls |-> "BackRef", proto |-> 0,
     own |-> [NoOwn EXCEPT !["prototype"] = Ref(prototype)]]

(***************************************************************************)
(* Prototype.clone                                                         *)
(***************************************************************************)
(* Variant: Object.create is handed the primitive. *)
CloneThrows_OnPrimitive(h, this) == ObjectCreateThrows(Get(h, this, "primitive"))

CloneThrows(h, this) == ObjectCreateThrows(Get(h, this, "component"))

(* Variant: the clone shares the source's component. *)
CloneHeap_SharedComponent(h, this) ==
    LET n == Len(h)
        clone0 == ObjectCreate(h, this)
        comp == ObjectCreate(h, Get(h, this, "component").v)
        inner == Spread(h, Ref(this))
        circ == [Spread(h, Get(h, this, "circularReference"))
                     EXCEPT !.own["prototype"] = Ref(n + 4)]
        clone == [clone0 EXCEPT !.own["component"] = Get(h, this, "component"),
                                !.own["circularReference"] = Ref(n + 3)]
    IN  h \o <<clone, comp, circ, inner>>

(* The heap after a clone() that returns; the clone is object Len(h) + 1. *)
CloneHeap(h, this) ==
    LET n == Len(h)
        cloneId == n + 1
        compId == n + 2
        circId == n + 3
        innerId == n + 4
        clone0 == ObjectCreate(h, this)
        comp == ObjectCreate(h, Get(h, this, "component").v)
        inner == Spread(h, Ref(this))
        circ == [Spread(h, Get(h, this, "circularReference"))
                     EXCEPT !.own["prototype"] = Ref(innerId)]
        clone == [clone0 EXCEPT !.own["component"] = Ref(compId),
                                !.own["circularReference"] = Ref(circId)]
    IN  h \o <<clone, comp, circ, inner>>

(* The heap after a clone() that throws at Object.create(this.component). *)
CloneHeapThrown(h, this) == h \o <<ObjectCreate(h, this)>>

(***************************************************************************)
(* clientCode of the Prototype example: the three comparisons.             *)
(***************************************************************************)
PrimitiveCarried == "Primitive fields have been carried over to clone."

PrimitiveNotCarried == "Primitive values have _not_ been carried over."

ComponentNotCloned == "Simgple component has not been cloned."

ComponentCloned == "Simgple component have been cloned."

LinkedToOriginal == "Component with back ref is linked to original object."

LinkedToClone == "Component with back ref is linked to clone."

ClientReport(h, p1, p2) ==
    << IF Get(h, p1, "primitive") = Get(h, p2, "primitive")
         THEN PrimitiveCarried ELSE PrimitiveNotCarried,
       IF Get(h, p1, "component") = Get(h, p2, "component")
         THEN ComponentNotCloned ELSE ComponentCloned,
       IF Get(h, p1, "circularReference") = Get(h, p2, "circularReference")
         THEN LinkedToOriginal ELSE LinkedToClone >>

(***************************************************************************)
(* State of the Prototype example.                                         *)
(*   heap     the objects allocated so far, by identity 1..Len(heap)      *)
(*   pre      the heap before the last operation                          *)
(*   calls    the clone() calls made so far                               *)
(*   last     the last operation                                          *)
(*   writes   the number of assignments made to built objects             *)
(*   out      the console lines of the last comparison                    *)
(***************************************************************************)
OkCalls == {i \in 1..Len(calls) : calls[i].outcome = "ok"}

Roots(h) == {o \in 1..Len(h) : h[o].cls = "Prototype" /\ h[o].proto = 0}

(* The Prototype instances the client holds: roots and returned clones. *)
Held == Roots(heap) \cup {calls[i].res : i \in OkCalls}

Components(h) == {o \in 1..Len(h) : h[o].cls = "Component"}

NoOp == [op |-> "none", src |-> 0, res |-> 0, outcome |-> "ok"]

Init ==
    /\ heap = <<>>
    /\ pre = <<>>
    /\ calls = <<>>
    /\ last = NoOp
    /\ writes = 0
    /\ out = <<>>
    /\ products = <<>>
    /\ console = <<>>

(* const p1 = new Prototype(): the client builds one root; every other *)
(* Prototype instance is a clone.                                      *)
NewPrototype ==
    /\ Roots(heap) = {}
    /\ heap' = Append(heap, NewPrototypeObj)
    /\ pre' = heap
    /\ last' = [op |-> "new", src |-> 0, res |-> Len(heap) + 1, outcome |-> "ok"]
    /\ UNCHANGED <<calls, writes, out, products, console>>

(* p.primitive = v *)
SetPrimitive(p, v) ==
    /\ LET built == p \notin Roots(heap) \/ HasOwn(heap, p, "primitive")
       IN  /\ built => writes < MaxWrites
           /\ writes' = IF built THEN writes + 1 ELSE writes
    /\ heap' = Put(heap, p, "primitive", Prim(v))
    /\ pre' = heap
    /\ last' = [op |-> "setPrimitive", src |-> p, res |-> 0, outcome |-> "ok"]
    /\ UNCHANGED <<calls, out, products, console>>

(* p.component = new Date() *)
SetComponent(p, d) ==
    /\ HasOwn(heap, p, "primitive")
    /\ ~HasOwn(heap, p, "component")
    /\ heap' = Put(Append(heap, NewComponentObj(d)), p, "component", Ref(Len(heap) + 1))
    /\ pre' = heap
    /\ last' = [op |-> "setComponent", src |-> p, res |-> Len(heap) + 1, outcome |-> "ok"]
    /\ UNCHANGED <<calls, writes, out, products, console>>

(* p.circularReference = new ComponentWithBackReference(p) *)
SetCircularReference(p) ==
    /\ HasOwn(heap, p, "component")
    /\ ~HasOwn(heap, p, "circularReference")
    /\ heap' = Put(Append(heap, ComponentWithBackReference(p)), p,
                   "circularReference", Ref(Len(heap) + 1))
    /\ pre' = heap
    /\ last' = [op |-> "setCircularReference", src |-> p, res |-> Len(heap) + 1,
                outcome |-> "ok"]
    /\ UNCHANGED <<calls, writes, out, products, console>>

(* A later change of a component's content: component.data = d *)
SetData(c, d) ==
    /\ writes < MaxWrites
    /\ Get(heap, c, "data") # Prim(d)
    /\ heap' = Put(heap, c, "data", Prim(d))
    /\ pre' = heap
    /\ last' = [op |-> "setData", src |-> c, res |-> 0, outcome |-> "ok"]
    /\ writes' = writes + 1
    /\ UNCHANGED <<calls, out, products, console>>

(* const p2 = p.clone() *)
Clone(p) ==
    /\ Len(calls) < MaxClones
    /\ IF CloneThrows(heap, p)
       THEN /\ heap' = CloneHeapThrown(heap, p)
            /\ last' = [op |-> "clone", src |-> p, res |-> 0, outcome |-> "TypeError"]
       ELSE /\ heap' = CloneHeap(heap, p)
            /\ last' = [op |-> "clone", src |-> p, res |-> Len(heap) + 1, outcome |-> "ok"]
    /\ pre' = heap
    /\ calls' = Append(calls, last')
    /\ UNCHANGED <<writes, out, products, console>>

(* The comparisons clientCode prints right after p2 = p1.clone(). *)
Compare ==
    /\ last.op = "clone" /\ last.outcome = "ok"
    /\ out' = ClientReport(heap, last.src, last.res)
    /\ pre' = heap
    /\ last' = [op |-> "compare", src |-> last.src, res |-> last.res, outcome |-> "ok"]
    /\ UNCHANGED <<heap, calls, writes, products, console>>

Next ==
    \/ NewPrototype
    \/ \E p \in Held, v \in PrimVals : SetPrimitive(p, v)
    \/ \E p \in Roots(heap), d \in DataVals : SetComponent(p, d)
    \/ \E p \in Roots(heap) : SetCircularReference(p)
    \/ \E c \in Components(heap), d \in DataVals : SetData(c, d)
    \/ \E p \in Held : Clone(p)
    \/ Compare

Spec == Init /\ [][Next]_vars

(***************************************************************************)
(* Abstract Factory example.                                               *)
(*   products  the products created so far, with the factory and method   *)
(*   console   the lines clientCode has printed, with its factory         *)
(***************************************************************************)
Factories == {"ConcreteFactory1", "ConcreteFactory2"}

UsefulFunctionA(a) ==
    IF a = "ConcreteProductA1" THEN "Product A1" ELSE "Product A2"

UsefulFunctionB(b) ==
    IF b = "ConcreteProductB1" THEN "Product B1" ELSE "Product B2"

(* The template string: its literal part and the collaborator's result. *)
AnotherUsefulFunctionB(b, collaborator) ==
    << IF b = "ConcreteProductB1"
         THEN "Another useful product B1 collaborating with "
         ELSE "Another useful product B2 collaborating with ",
       UsefulFunctionA(collaborator) >>

(* Variant: every factory builds the first variant of product A. *)
FactoryCreateProductA_Variant1(f) == "ConcreteProductA1"

FactoryCreateProductA(f) ==
    IF f = "ConcreteFactory1" THEN "ConcreteProductA1" ELSE "ConcreteProductA2"

FactoryCreateProductB(f) ==
    IF f = "ConcreteFactory1" THEN "ConcreteProductB1" ELSE "ConcreteProductB2"

FactoryCalls == Len(products) + Len(console)

(* factory.createProductA() *)
CreateProductA(f) ==
    /\ FactoryCalls < MaxFactoryCalls
    /\ products' = Append(products,
                     [factory |-> f, method |-> "createProductA",
                      product |-> FactoryCreateProductA(f)])
    /\ UNCHANGED <<heap, pre, calls, last, writes, out, console>>

(* factory.createProductB() *)
CreateProductB(f) ==
    /\ FactoryCalls < MaxFactoryCalls
    /\ products' = Append(products,
                     [factory |-> f, method |-> "createProductB",
                      product |-> FactoryCreateProductB(f)])
    /\ UNCHANGED <<heap, pre, calls, last, writes, out, console>>

(* clientCode(factory) *)
FactoryClientCode(f) ==
    /\ FactoryCalls < MaxFactoryCalls
    /\ LET productA == FactoryCreateProductA(f)
           productB == FactoryCreateProductB(f)
       IN  console' = Append(console,
                        [factory |-> f,
                         lines |-> << UsefulFunctionB(productB),
                                      AnotherUsefulFunctionB(productB, productA) >>])
    /\ UNCHANGED <<heap, pre, calls, last, writes, out, products>>

NextFactory ==
    \/ \E f \in Factories : CreateProductA(f)
    \/ \E f \in Factories : CreateProductB(f)
    \/ \E f \in Factories : FactoryClientCode(f)

SpecFactory == Init /\ [][NextFactory]_vars

(***************************************************************************)
(* Properties of Prototype.clone.  pre is the heap the last operation     *)
(* started from, so a postcondition of clone() is a predicate of the      *)
(* state right after it.                                                   *)
(***************************************************************************)
LastCloneOk == last.op = "clone" /\ last.outcome = "ok"

(* The target of o's back reference: o.circularReference.prototype *)
BackRefTarget(h, o) ==
    LET cr == Get(h, o, "circularReference")
    IN  IF cr.t = "ref" THEN Get(h, cr.v, "prototype") ELSE Undef

(* A root built per the lifecycle, its back reference pointing at itself. *)
Built(h, r) ==
    /\ r \in Roots(h)
    /\ h[r].own["primitive"].t = "prim"
    /\ h[r].own["component"].t = "ref"
    /\ h[r].own["circularReference"].t = "ref"
    /\ BackRefTarget(h, r) = Ref(r)

(* r was returned by one of the first n clone() calls. *)
ClonedBefore(r, n) == \E i \in OkCalls : i <= n /\ calls[i].res = r

(* The source of the last clone() is a Root in the sense of the claims. *)
LastSourceIsRoot ==
    Built(pre, last.src) \/ ClonedBefore(last.src, Len(calls) - 1)

Fields == {"component", "circularReference", "prototype"}

(* The objects o's declared fields refer to. *)
FieldRefs(h, o) == {Get(h, o, f).v : f \in {g \in Fields : Get(h, o, g).t = "ref"}}

RECURSIVE ReachFrom(_, _)
ReachFrom(h, S) ==
    LET N == S \cup UNION {FieldRefs(h, o) : o \in S}
    IN  IF N = S THEN S ELSE ReachFrom(h, N)

(* C1: for every Root r and c = r.clone(), the clone's back-reference     *)
(* target c.circularReference.prototype is c itself and is not r.         *)
C1_BackRefIsClone ==
    (LastCloneOk /\ LastSourceIsRoot) =>
        /\ BackRefTarget(heap, last.res) = Ref(last.res)
        /\ BackRefTarget(heap, last.res) # Ref(last.src)

(* C2: a Root constructed with primitive = v and then cloned yields a     *)
(* clone whose primitive reads as v.                                      *)
C2_PrimitiveCarried ==
    (LastCloneOk /\ last.src \in Roots(pre) /\ HasOwn(pre, last.src, "primitive")) =>
        /\ pre[last.src].own["primitive"].t = "prim"
        /\ Get(heap, last.res, "primitive") = pre[last.src].own["primitive"]

C2_Witness ==
    /\ LastCloneOk
    /\ last.src \in Roots(pre)
    /\ pre[last.src].own["primitive"] = Prim(RefPrimitive)
    /\ Get(heap, last.res, "primitive") = Prim(RefPrimitive)

(* C3: for every Root r, clone(r).component is a newly allocated object,  *)
(* not identity-equal to r.component.                                     *)
C3_ComponentDistinct ==
    LastCloneOk =>
        LET cc == Get(heap, last.res, "component")
        IN  /\ cc.t = "ref"
            /\ cc.v \in (Len(pre) + 1)..Len(heap)
            /\ cc # Get(pre, last.src, "component")
            /\ cc # Get(heap, last.src, "component")

C3_Witness ==
    /\ LastCloneOk
    /\ LastSourceIsRoot
    /\ Get(heap, last.src, "component").t = "ref"
    /\ Get(heap, last.res, "component") # Get(heap, last.src, "component")

(* C4: the clone's component starts as a shallow copy of the own          *)
(* properties of r.component (each one an own property of the copy with   *)
(* the same value), and so does not depend on r.component afterwards.     *)
C4_ShallowCopy ==
    /\ LastCloneOk =>
          LET rc == Get(pre, last.src, "component").v
              cc == Get(heap, last.res, "component").v
          IN  \A p \in OwnProps(pre, rc) :
                  HasOwn(heap, cc, p) /\ heap[cc].own[p] = pre[rc].own[p]
    /\ last.op = "setData" =>
          \A i \in OkCalls :
              LET cc == Get(heap, calls[i].res, "component").v
              IN  cc # last.src => Get(heap, cc, "data") = Get(pre, cc, "data")

(* C5: two clones of the same Root are not identity-equal, and each has   *)
(* the source's primitive, a component distinct from the source's, and a  *)
(* back-reference target that is the clone itself and not the source.     *)
C5_TwoClones ==
    \A i, j \in OkCalls :
        LET r == calls[i].src
            c1 == calls[i].res
            c2 == calls[j].res
        IN  (/\ i < j
             /\ calls[j].src = r
             /\ Built(heap, r) \/ ClonedBefore(r, i - 1)
             /\ ~HasOwn(heap, c1, "primitive")
             /\ ~HasOwn(heap, c2, "primitive")) =>
                /\ c1 # c2
                /\ \A c \in {c1, c2} :
                      /\ Get(heap, c, "primitive") = Get(heap, r, "primitive")
                      /\ Get(heap, c, "component") # Get(heap, r, "component")
                      /\ BackRefTarget(heap, c) = Ref(c)
                      /\ BackRefTarget(heap, c) # Ref(r)

(* C6: clone() of a Root built per the lifecycle, or of a Root that was   *)
(* itself returned by clone(), returns a Root and raises no error.        *)
C6_CloneReturns ==
    (last.op = "clone" /\ LastSourceIsRoot) =>
        /\ last.outcome = "ok"
        /\ last.res \in (Len(pre) + 1)..Len(heap)
        /\ heap[last.res].cls = "Prototype"

C6_Witness ==
    /\ last.op = "clone"
    /\ ClonedBefore(last.src, Len(calls) - 1)
    /\ last.outcome = "ok"
    /\ heap[last.res].proto = last.src

(* C8: in the reference scenario the third line clientCode prints is      *)
(* 'linked to clone' exactly when p2.circularReference.prototype is p2,   *)
(* and 'linked to original object' exactly when that target is p1.        *)
C8_ThirdComparison ==
    (/\ last.op = "compare"
     /\ Built(heap, last.src)
     /\ heap[last.src].own["primitive"] = Prim(RefPrimitive)) =>
        /\ out[3] = LinkedToClone <=> BackRefTarget(heap, last.res) = Ref(last.res)
        /\ out[3] = LinkedToOriginal <=> BackRefTarget(heap, last.res) = Ref(last.src)

(* C9: after c = clone(r) the value read from c.primitive changes only on *)
(* an assignment to c.primitive, and the value read from r.primitive only *)
(* on an assignment to r.primitive.                                       *)
C9_Independent ==
    \A i \in OkCalls :
        LET r == calls[i].src
            c == calls[i].res
        IN  c <= Len(pre) =>
              /\ Get(heap, c, "primitive") # Get(pre, c, "primitive") =>
                    (last.op = "setPrimitive" /\ last.src = c)
              /\ Get(heap, r, "primitive") # Get(pre, r, "primitive") =>
                    (last.op = "setPrimitive" /\ last.src = r)

(* C10: no object reachable from c = clone(r) through the declared fields *)
(* is r, r.component or r.circularReference.                              *)
C10_NoAlias ==
    (LastCloneOk /\ LastSourceIsRoot) =>
        ReachFrom(heap, {last.res}) \cap ({last.src} \cup FieldRefs(pre, last.src)) = {}

(***************************************************************************)
(* Properties of the Abstract Factory example.                             *)
(***************************************************************************)
ExpectedA(f) == IF f = "ConcreteFactory1" THEN "Product A1" ELSE "Product A2"

ExpectedB(f) == IF f = "ConcreteFactory1" THEN "Product B1" ELSE "Product B2"

ExpectedCollaboration(f) ==
    IF f = "ConcreteFactory1"
      THEN "Another useful product B1 collaborating with "
      ELSE "Another useful product B2 collaborating with "

(* C7: every product of ConcreteFactory<i> is of variant i: createProductA *)
(* gives a product reporting 'Product A<i>', createProductB one reporting  *)
(* 'Product B<i>', and in clientCode product B<i> collaborates with        *)
(* product A<i>, never with the other variant.                             *)
C7_OneVariant ==
    /\ \A k \in 1..Len(products) :
          LET e == products[k]
          IN  /\ e.method = "createProductA" =>
                    UsefulFunctionA(e.product) = ExpectedA(e.factory)
              /\ e.method = "createProductB" =>
                    UsefulFunctionB(e.product) = ExpectedB(e.factory)
    /\ \A k \in 1..Len(console) :
          LET e == console[k]
          IN  /\ e.lines[1] = ExpectedB(e.factory)
              /\ e.lines[2] = <<ExpectedCollaboration(e.factory), ExpectedA(e.factory)>>

C7_Witness ==
    /\ \E k \in 1..Len(products) :
          products[k].factory = "ConcreteFactory2" /\ products[k].method = "createProductA"
    /\ \E k \in 1..Len(products) :
          products[k].factory = "ConcreteFactory1" /\ products[k].method = "createProductB"
    /\ \E k, m \in 1..Len(console) : console[k].factory # console[m].factory

====
